---- MODULE Spec2Model ----
(***************************************************************************)
(* Model of gas-particle-simulation.py: the per-frame kernel step() and    *)
(* the animation loop that calls it.                                       *)
(*                                                                         *)
(* Numbers.  The program computes in IEEE doubles.  Here a number is a     *)
(* record [n, d]: a reduced fraction n/d when d > 0, and for d = 0 one of  *)
(* the three non-finite doubles: NaN (n = 0), +inf (n = 1), -inf (n = -1). *)
(* Arithmetic on finite values is exact (rounding is not modelled);        *)
(* division by zero, inf * 0 and every comparison with NaN follow IEEE.    *)
(* A square root is taken only of a perfect square; a tick that would      *)
(* need an irrational norm is not explored (see Representable).            *)
(*                                                                         *)
(* Particle indices are 1..particle_count here, 0..particle_count-1 in the *)
(* source; the order of indices is the same.                               *)
(***************************************************************************)
EXTENDS Integers, Sequences, FiniteSets, TLC

(* ---------------------------- bounds ----------------------------------- *)
MaxParticles == 3
MaxTicks == 2

(* ---------------------------- numbers ---------------------------------- *)
Abs(k) == IF k < 0 THEN -k ELSE k

Sgn(k) == IF k < 0 THEN -1 ELSE IF k > 0 THEN 1 ELSE 0

RECURSIVE GCD(_, _)
GCD(a, b) == IF b = 0 THEN a ELSE GCD(b, a % b)

Frac(n, d) ==
    LET g == GCD(Abs(n), d)
    IN  [n |-> Sgn(n) * (Abs(n) \div g), d |-> d \div g]

Num(k) == [n |-> k, d |-> 1]

NaN == [n |-> 0, d |-> 0]

Inf(s) == [n |-> s, d |-> 0]

Zero == Num(0)

One == Num(1)

Two == Num(2)

Half == Frac(1, 2)

IsNaN(a) == a.d = 0 /\ a.n = 0

IsFinite(a) == a.d > 0

Neg(a) == [n |-> -a.n, d |-> a.d]

Add(a, b) ==
    IF IsNaN(a) \/ IsNaN(b) THEN NaN
    ELSE IF a.d = 0 /\ b.d = 0 THEN (IF a.n = b.n THEN a ELSE NaN)
    ELSE IF a.d = 0 THEN a
    ELSE IF b.d = 0 THEN b
    ELSE Frac(a.n * b.d + b.n * a.d, a.d * b.d)

Sub(a, b) == Add(a, Neg(b))

Mul(a, b) ==
    IF IsNaN(a) \/ IsNaN(b) THEN NaN
    ELSE IF a.d = 0 \/ b.d = 0
         THEN (IF a.n = 0 \/ b.n = 0 THEN NaN ELSE Inf(Sgn(a.n) * Sgn(b.n)))
    ELSE Frac(a.n * b.n, a.d * b.d)

Div(a, b) ==
    IF IsNaN(a) \/ IsNaN(b) THEN NaN
    ELSE IF b.d = 0 THEN (IF a.d = 0 THEN NaN ELSE Zero)
    ELSE IF b.n = 0 THEN (IF a.n = 0 THEN NaN ELSE Inf(Sgn(a.n)))
    ELSE IF a.d = 0 THEN Inf(Sgn(a.n) * Sgn(b.n))
    ELSE Frac(Sgn(b.n) * a.n * b.d, a.d * Abs(b.n))

Lt(a, b) ==
    IF IsNaN(a) \/ IsNaN(b) THEN FALSE
    ELSE IF a.d = 0 /\ b.d = 0 THEN a.n < b.n
    ELSE a.n * b.d < b.n * a.d

Gt(a, b) == Lt(b, a)

Le(a, b) == ~IsNaN(a) /\ ~IsNaN(b) /\ ~Lt(b, a)

RECURSIVE ISqrt(_)
ISqrt(k) ==
    IF k < 2 THEN k
    ELSE LET s == 2 * ISqrt(k \div 4)
         IN  IF (s + 1) * (s + 1) <= k THEN s + 1 ELSE s

IsSquare(a) ==
    IsFinite(a) /\ a.n >= 0 /\ ISqrt(a.n) * ISqrt(a.n) = a.n
                /\ ISqrt(a.d) * ISqrt(a.d) = a.d

Sqrt(a) == IF IsNaN(a) THEN NaN ELSE [n |-> ISqrt(a.n), d |-> ISqrt(a.d)]

(* ------------------------ program constants ---------------------------- *)
w == Num(700)

h == Num(700)

(* ---------------------------- inputs ----------------------------------- *)
(* (radius, velocity, time_step) as typed at the prompts.  Every radius    *)
(* satisfies radius > 0 and 2*radius < 700.                                *)
Configs ==
    { <<Num(3), Num(5), Zero>>,
      <<Num(3), Num(5), One>>,
      <<Num(3), Zero, One>>,
      <<Num(3), Zero, Frac(1, 5)>>,
      <<Frac(1399, 4), Zero, One>> }

(* Values np.random.randint may return for a coordinate.                   *)
Positions == { <<2, 50>>, <<10, 50>>, <<16, 50>>, <<13, 54>>, <<696, 50>> }

(* (sin, cos) of values np.random.uniform may return for motion_angle.     *)
Angles == { <<One, Zero>>, <<Neg(One), Zero>> }

VARIABLES
    particle_count,   \* number of particles (line 14)
    radius,           \* line 15
    velocity,         \* line 16
    time_step,        \* line 17
    particle_state,   \* particle_state[i] = <<x, y, vx, vy>>
    state_copy,       \* particle_state at entry of the last step()
    integrated,       \* particle_state after line 73 of the last step()
    is_colliding,     \* pairs selected at lines 79-81 of the last step()
    colliding,        \* pairs left at line 89 of the last step()
    resolved,         \* particle_state after line 104 of the last step()
    ticks             \* completed calls of step()

vars == <<particle_count, radius, velocity, time_step, particle_state,
          state_copy, integrated, is_colliding, colliding, resolved, ticks>>

Particles == 1..particle_count

(* ------------------- initial state (lines 14-25) ----------------------- *)
RandInt(low, high) == { k \in 0..700 : low <= k /\ Lt(Num(k), high) }

InitialParticles(r, v) ==
    { <<Num(p[1]), Num(p[2]), Mul(v, a[1]), Mul(v, a[2])>> :
        p \in { q \in Positions : /\ q[1] \in RandInt(2, Sub(w, r))
                                  /\ q[2] \in RandInt(2, Sub(h, r)) },
        a \in Angles }

Init ==
    /\ particle_count \in 1..MaxParticles
    /\ \E cfg \in Configs :
          /\ radius = cfg[1]
          /\ velocity = cfg[2]
          /\ time_step = cfg[3]
    /\ particle_state \in [1..particle_count -> InitialParticles(radius, velocity)]
    /\ state_copy = particle_state
    /\ integrated = particle_state
    /\ is_colliding = <<>>
    /\ colliding = <<>>
    /\ resolved = particle_state
    /\ ticks = 0

(* ------------------------- step(): line 73 ----------------------------- *)
Integrate(ps, dt) ==
    [p \in DOMAIN ps |->
        << Add(ps[p][1], Mul(ps[p][3], dt)),
           Add(ps[p][2], Mul(ps[p][4], dt)),
           ps[p][3],
           ps[p][4] >>]

(* ---------------------- step(): lines 76-81 ---------------------------- *)
RowPairs(i, n) == [k \in 1..(n - i) |-> <<i, i + k>>]

RECURSIVE Triu(_, _)
Triu(i, n) == IF i >= n THEN <<>> ELSE RowPairs(i, n) \o Triu(i + 1, n)

upper_triangle_indices == Triu(1, particle_count)

\* Square of the entry of pdist for the pair (i, j).
DistSq(ps, i, j) ==
    LET dx == Sub(ps[i][1], ps[j][1])
        dy == Sub(ps[i][2], ps[j][2])
    IN  Add(Mul(dx, dx), Mul(dy, dy))

\* Variant: the threshold is exclusive (distances < 2 * radius).
IsColliding_strict(ps, i, j) ==
    /\ Lt(Zero, Mul(Two, radius))
    /\ Lt(DistSq(ps, i, j), Mul(Mul(Two, radius), Mul(Two, radius)))

\* Variant: the comparison is the wrong way round (distances >= 2 * radius).
IsColliding_flipped(ps, i, j) ==
    Le(Mul(Mul(Two, radius), Mul(Two, radius)), DistSq(ps, i, j))

\* distances <= 2 * radius, compared on the squares (distances are >= 0).
IsColliding(ps, i, j) ==
    /\ Le(Zero, Mul(Two, radius))
    /\ Le(DistSq(ps, i, j), Mul(Mul(Two, radius), Mul(Two, radius)))

CollidingPairs(ps) ==
    LET Test(pr) == IsColliding(ps, pr[1], pr[2])
    IN  SelectSeq(upper_triangle_indices, Test)

(* ---------------------- step(): lines 84-89 ---------------------------- *)
Column(pairs, c) == [k \in DOMAIN pairs |-> pairs[k][c]]

Range(seq) == { seq[k] : k \in DOMAIN seq }

RECURSIVE SortedSeq(_)
SortedSeq(S) ==
    IF S = {} THEN <<>>
    ELSE LET m == CHOOSE x \in S : \A y \in S : x <= y
         IN  <<m>> \o SortedSeq(S \ {m})

\* Variant: the index of the last occurrence instead of the first.
FirstIndex_last(ar, v) ==
    CHOOSE k \in DOMAIN ar : ar[k] = v /\ \A m \in (k + 1)..Len(ar) : ar[m] # v

\* Index np.unique(ar, return_index=True) reports for the value v.
FirstIndex(ar, v) ==
    CHOOSE k \in DOMAIN ar : ar[k] = v /\ \A m \in 1..(k - 1) : ar[m] # v

\* The index array of np.unique(ar, return_index=True): for each distinct
\* value, in ascending order of value, the index of its first occurrence.
UniqueIndex(ar) ==
    LET sorted == SortedSeq(Range(ar))
    IN  [k \in DOMAIN sorted |-> FirstIndex(ar, sorted[k])]

Take(pairs, mask) == [k \in DOMAIN mask |-> pairs[mask[k]]]

\* Lines 84-85.
UniqueFirst(pairs) == Take(pairs, UniqueIndex(Column(pairs, 1)))

\* Lines 86-87.
UniqueSecond(pairs) == Take(pairs, UniqueIndex(Column(pairs, 2)))

\* Variant: lines 88-89 left out.
DistinctPairs_skipped(pairs) == pairs

\* Lines 88-89.
DistinctPairs(pairs) ==
    LET Test(pr) == pr[1] \notin Range(Column(pairs, 2))
    IN  SelectSeq(pairs, Test)

Matching(ps) == DistinctPairs(UniqueSecond(UniqueFirst(CollidingPairs(ps))))

(* ---------------------- step(): lines 92-104 --------------------------- *)
PosDiff(ps, pr) ==
    << Sub(ps[pr[2]][1], ps[pr[1]][1]), Sub(ps[pr[2]][2], ps[pr[1]][2]) >>

VelDiff(ps, pr) ==
    << Sub(ps[pr[1]][3], ps[pr[2]][3]), Sub(ps[pr[1]][4], ps[pr[2]][4]) >>

ScalarProduct(ps, pr) ==
    Add(Mul(VelDiff(ps, pr)[1], PosDiff(ps, pr)[1]),
        Mul(VelDiff(ps, pr)[2], PosDiff(ps, pr)[2]))

PosDiffNorm(ps, pr) ==
    Sqrt(Add(Mul(PosDiff(ps, pr)[1], PosDiff(ps, pr)[1]),
             Mul(PosDiff(ps, pr)[2], PosDiff(ps, pr)[2])))

\* Variant: the norm is not squared.
VelFactor_unsquared(ps, pr) == Div(ScalarProduct(ps, pr), PosDiffNorm(ps, pr))

\* scalar_product / pos_diff_norm ** 2
VelFactor(ps, pr) ==
    Div(ScalarProduct(ps, pr), Mul(PosDiffNorm(ps, pr), PosDiffNorm(ps, pr)))

\* 0.5 * ((2 * radius / pos_diff_norm) - 1)
PosFactor(ps, pr) ==
    Mul(Half, Sub(Div(Mul(Two, radius), PosDiffNorm(ps, pr)), One))

\* Right-hand sides of lines 100, 101, 103, 104 for the pair pr, column c.
NewVel1(ps, pr, c) == Sub(ps[pr[1]][c + 2], Mul(VelFactor(ps, pr), PosDiff(ps, pr)[c]))

\* Variant: line 101 subtracts, as line 100 does.
NewVel2_minus(ps, pr, c) == Sub(ps[pr[2]][c + 2], Mul(VelFactor(ps, pr), PosDiff(ps, pr)[c]))

NewVel2(ps, pr, c) == Add(ps[pr[2]][c + 2], Mul(VelFactor(ps, pr), PosDiff(ps, pr)[c]))

NewPos1(ps, pr, c) == Sub(ps[pr[1]][c], Mul(PosFactor(ps, pr), PosDiff(ps, pr)[c]))

NewPos2(ps, pr, c) == Add(ps[pr[2]][c], Mul(PosFactor(ps, pr), PosDiff(ps, pr)[c]))

\* Index-array assignment: when an index occurs twice the last write stays.
LastIndex(ar, v) ==
    CHOOSE k \in DOMAIN ar : ar[k] = v /\ \A m \in (k + 1)..Len(ar) : ar[m] # v

\* Lines 92-104.  The right-hand sides are all computed from ps (lines
\* 93-94 copy the rows); the rows of colliding_2 are written after those
\* of colliding_1.
Resolve(ps, pairs) ==
    LET c1 == Column(pairs, 1)
        c2 == Column(pairs, 2)
    IN  [p \in DOMAIN ps |->
            IF p \in Range(c2)
            THEN LET pr == pairs[LastIndex(c2, p)]
                 IN  << NewPos2(ps, pr, 1), NewPos2(ps, pr, 2),
                        NewVel2(ps, pr, 1), NewVel2(ps, pr, 2) >>
            ELSE IF p \in Range(c1)
            THEN LET pr == pairs[LastIndex(c1, p)]
                 IN  << NewPos1(ps, pr, 1), NewPos1(ps, pr, 2),
                        NewVel1(ps, pr, 1), NewVel1(ps, pr, 2) >>
            ELSE ps[p]]

(* ---------------------- step(): lines 107-118 -------------------------- *)
Size(i) == IF i = 1 THEN w ELSE h

OutOfBoundsMin(x, i) == Lt(x, radius)

OutOfBoundsMax(x, i) == Gt(x, Sub(Size(i), radius))

\* Variant: line 114 without the offset of 1.
PushMin_noOffset(x) == Add(x, Sub(radius, x))

\* Line 114.
PushMin(x) == Add(x, Add(Sub(radius, x), One))

\* Variant: line 118 with the offset added instead of subtracted.
PushMax_plusOne(x, i) == Add(x, Add(Sub(Sub(Size(i), radius), x), One))

\* Line 118.
PushMax(x, i) == Add(x, Sub(Sub(Sub(Size(i), radius), x), One))

\* Position and velocity of one particle on axis i after lines 109-118.
\* Both masks are taken from the coordinate on entry (lines 109-110).
ReflectAxis(x, v, i) ==
    LET x1 == IF OutOfBoundsMin(x, i) THEN PushMin(x) ELSE x
        v1 == IF OutOfBoundsMin(x, i) THEN Neg(v) ELSE v
        x2 == IF OutOfBoundsMax(x, i) THEN PushMax(x1, i) ELSE x1
        v2 == IF OutOfBoundsMax(x, i) THEN Neg(v1) ELSE v1
    IN  <<x2, v2>>

Rebound(ps) ==
    [p \in DOMAIN ps |->
        << ReflectAxis(ps[p][1], ps[p][3], 1)[1],
           ReflectAxis(ps[p][2], ps[p][4], 2)[1],
           ReflectAxis(ps[p][1], ps[p][3], 1)[2],
           ReflectAxis(ps[p][2], ps[p][4], 2)[2] >>]

(* ------------------------------ step() --------------------------------- *)
\* Every matched pair has a rational centre distance, so that the tick is
\* computed exactly.
Representable(ps, pairs) ==
    \A k \in DOMAIN pairs : IsSquare(DistSq(ps, pairs[k][1], pairs[k][2]))

\* animate() (lines 125-128): one call of step(time_step, particle_state).
\* Lines 121-123 only move the canvas items.
Animate ==
    /\ ticks < MaxTicks
    /\ Representable(Integrate(particle_state, time_step),
                     Matching(Integrate(particle_state, time_step)))
    /\ state_copy' = particle_state
    /\ integrated' = Integrate(particle_state, time_step)
    /\ is_colliding' = CollidingPairs(integrated')
    /\ colliding' = Matching(integrated')
    /\ resolved' = Resolve(integrated', colliding')
    /\ particle_state' = Rebound(resolved')
    /\ ticks' = ticks + 1
    /\ UNCHANGED <<particle_count, radius, velocity, time_step>>

Next == Animate

Spec == Init /\ [][Next]_vars

(* ======================= properties of step() ========================== *)

\* C1: the pair list handed to collision resolution (line 89) contains
\* each particle index at most once, as first or as second element.
C1_MatchingDisjoint ==
    /\ \A k \in DOMAIN colliding : colliding[k][1] # colliding[k][2]
    /\ \A k, m \in DOMAIN colliding :
          k # m => {colliding[k][1], colliding[k][2]}
                     \cap {colliding[m][1], colliding[m][2]} = {}

\* A tick in which the three filters dropped a colliding pair and kept one.
C1_Witness ==
    /\ ticks > 0
    /\ Len(colliding) >= 1
    /\ Len(is_colliding) >= 3

\* C10: when some pair is colliding, the first colliding pair in
\* enumeration order is among the pairs left at line 89.
C10_FirstPairSurvives ==
    (ticks > 0 /\ is_colliding # <<>>) => is_colliding[1] \in Range(colliding)

\* A tick with several colliding pairs, the first of which shares its
\* first index with a later one.
C10_Witness ==
    /\ ticks > 0
    /\ Len(is_colliding) >= 2
    /\ is_colliding[2][1] = is_colliding[1][1]
    /\ is_colliding[1] \in Range(colliding)

\* C3: for every resolved pair with non-zero centre distance, the sum of
\* the two velocities after lines 100-101 equals the sum before, per
\* component.
C3_MomentumConserved ==
    \A k \in DOMAIN colliding :
        LET a == colliding[k][1]
            b == colliding[k][2]
        IN  DistSq(integrated, a, b) # Zero =>
              /\ Add(resolved[a][3], resolved[b][3])
                   = Add(integrated[a][3], integrated[b][3])
              /\ Add(resolved[a][4], resolved[b][4])
                   = Add(integrated[a][4], integrated[b][4])

\* A resolved pair whose velocities were changed, off the x axis.
C3_Witness ==
    \E k \in DOMAIN colliding :
        LET a == colliding[k][1]
            b == colliding[k][2]
        IN  /\ resolved[a][3] # integrated[a][3]
            /\ resolved[a][4] # integrated[a][4]
            /\ resolved[b][4] # integrated[b][4]

SpeedSq(ps, p) == Add(Mul(ps[p][3], ps[p][3]), Mul(ps[p][4], ps[p][4]))

C2_InsideDomain ==
    (ticks > 0 /\ Lt(Zero, radius) /\ Lt(Mul(Two, radius), w)
               /\ Lt(Mul(Two, radius), h)) =>
        \A p \in Particles : \A i \in 1..2 :
            /\ Le(radius, particle_state[p][i])
            /\ Le(particle_state[p][i], Sub(Size(i), radius))

\* C5 as stated: if all velocities are zero, a tick leaves every
\* position unchanged and detects no colliding pair.
C5_ZeroVelocityIdle ==
    (ticks > 0 /\ \A p \in Particles :
                     state_copy[p][3] = Zero /\ state_copy[p][4] = Zero) =>
        /\ is_colliding = <<>>
        /\ \A p \in Particles : /\ particle_state[p][1] = state_copy[p][1]
                                /\ particle_state[p][2] = state_copy[p][2]

\* C5 amended: if all velocities are zero, no two centres are within
\* 2 * radius of each other and every coordinate lies in
\* [radius, size - radius], a tick detects no colliding pair and leaves
\* every position and velocity unchanged (so the same holds of the next).
C5_ZeroVelocityIdleApart ==
    (/\ ticks > 0
     /\ \A p \in Particles :
           /\ state_copy[p][3] = Zero /\ state_copy[p][4] = Zero
           /\ \A i \in 1..2 : /\ Le(radius, state_copy[p][i])
                              /\ Le(state_copy[p][i], Sub(Size(i), radius))
     /\ \A p, q \in Particles :
           p # q => Lt(Mul(Mul(Two, radius), Mul(Two, radius)),
                       DistSq(state_copy, p, q))) =>
        /\ is_colliding = <<>>
        /\ particle_state = state_copy

\* Two ticks of several resting particles that are apart and inside.
C5_Witness ==
    /\ ticks >= 2
    /\ particle_count >= 2
    /\ time_step # Zero
    /\ \A p \in Particles :
           /\ state_copy[p][3] = Zero /\ state_copy[p][4] = Zero
           /\ \A i \in 1..2 : /\ Le(radius, state_copy[p][i])
                              /\ Le(state_copy[p][i], Sub(Size(i), radius))
    /\ \A p, q \in Particles :
           p # q => Lt(Mul(Mul(Two, radius), Mul(Two, radius)),
                       DistSq(state_copy, p, q))
    /\ particle_state = state_copy

\* C6: a matched pair with centre distance 0 is skipped: both particles
\* are left as they were after integration, and no NaN enters the state.
C6_DegenerateSkipped ==
    \A k \in DOMAIN colliding :
        LET a == colliding[k][1]
            b == colliding[k][2]
        IN  DistSq(integrated, a, b) = Zero =>
              /\ resolved[a] = integrated[a]
              /\ resolved[b] = integrated[b]
              /\ \A p \in Particles : \A c \in 1..4 :
                    ~IsNaN(particle_state[p][c])

\* C7 as stated: on each axis, a coordinate on which a reflection fired
\* ends in [radius + 1, size - radius - 1], and one on which none fired
\* is unchanged by lines 107-118 (size > 2 * radius).
C7_ReflectedBand ==
    ticks > 0 =>
      \A p \in Particles : \A i \in 1..2 :
        Lt(Mul(Two, radius), Size(i)) =>
          IF \/ Lt(resolved[p][i], radius)
             \/ Lt(Sub(Size(i), radius), resolved[p][i])
          THEN /\ Le(Add(radius, One), particle_state[p][i])
               /\ Le(particle_state[p][i], Sub(Sub(Size(i), radius), One))
          ELSE particle_state[p][i] = resolved[p][i]

\* C7 amended: the same for every axis with size >= 2 * radius + 2.
C7_ReflectedBandWide ==
    ticks > 0 =>
      \A p \in Particles : \A i \in 1..2 :
        Le(Add(Mul(Two, radius), Two), Size(i)) =>
          IF \/ Lt(resolved[p][i], radius)
             \/ Lt(Sub(Size(i), radius), resolved[p][i])
          THEN /\ Le(Add(radius, One), particle_state[p][i])
               /\ Le(particle_state[p][i], Sub(Sub(Size(i), radius), One))
          ELSE particle_state[p][i] = resolved[p][i]

\* A tick in which one particle was reflected at the low wall and another
\* at the high wall of a domain with size >= 2 * radius + 2.
C7_Witness ==
    /\ ticks > 0
    /\ Le(Add(Mul(Two, radius), Two), w)
    /\ \E p, q \in Particles :
          /\ Lt(resolved[p][1], radius)
          /\ Lt(Sub(w, radius), resolved[q][1])
          /\ Le(Add(radius, One), particle_state[p][1])
          /\ Le(particle_state[q][1], Sub(Sub(w, radius), One))

\* C8: two particles exactly 2 * radius apart along the x axis, with
\* opposite x velocities, nothing else in contact, time_step = 0: the
\* pair is detected, the velocities are exchanged, positions stay.
C8_HeadOnSwap ==
    (/\ ticks > 0
     /\ particle_count = 2
     /\ time_step = Zero
     /\ state_copy[1][2] = state_copy[2][2]
     /\ Sub(state_copy[2][1], state_copy[1][1]) = Mul(Two, radius)
     /\ state_copy[1][4] = Zero /\ state_copy[2][4] = Zero
     /\ state_copy[2][3] = Neg(state_copy[1][3])
     /\ \A p \in Particles : \A i \in 1..2 :
           /\ Le(radius, state_copy[p][i])
           /\ Le(state_copy[p][i], Sub(Size(i), radius))) =>
        /\ is_colliding = << <<1, 2>> >>
        /\ colliding = << <<1, 2>> >>
        /\ particle_state[1] = << state_copy[1][1], state_copy[1][2],
                                  state_copy[2][3], state_copy[2][4] >>
        /\ particle_state[2] = << state_copy[2][1], state_copy[2][2],
                                  state_copy[1][3], state_copy[1][4] >>

\* The case of the specification: radius 3, (10,50) and (16,50),
\* velocities (5,0) and (-5,0), after one tick with time_step = 0.
C8_Witness ==
    /\ ticks = 1
    /\ radius = Num(3)
    /\ time_step = Zero
    /\ state_copy = << <<Num(10), Num(50), Num(5), Zero>>,
                       <<Num(16), Num(50), Num(-5), Zero>> >>
    /\ particle_state = << <<Num(10), Num(50), Num(-5), Zero>>,
                           <<Num(16), Num(50), Num(5), Zero>> >>

\* C9: a coordinate that is < radius after line 104 ends the tick at
\* exactly radius + 1 with that axis's velocity negated; one that is
\* > size - radius ends at exactly size - radius - 1, velocity negated.
C9_ReflectExact ==
    ticks > 0 =>
      \A p \in Particles : \A i \in 1..2 :
        /\ Lt(resolved[p][i], radius) =>
              /\ particle_state[p][i] = Add(radius, One)
              /\ particle_state[p][i + 2] = Neg(resolved[p][i + 2])
        /\ Lt(Sub(Size(i), radius), resolved[p][i]) =>
              /\ particle_state[p][i] = Sub(Sub(Size(i), radius), One)
              /\ particle_state[p][i + 2] = Neg(resolved[p][i + 2])

\* The case of the specification: a lone particle at (1, 50), radius 3,
\* velocity (-5, 0), ends one tick with time_step = 1 at x = 4, vx = 5.
C9_Witness ==
    /\ ticks = 1
    /\ particle_count = 1
    /\ radius = Num(3)
    /\ time_step = One
    /\ state_copy = << <<Num(1), Num(50), Num(-5), Zero>> >>
    /\ particle_state[1][1] = Num(4)
    /\ particle_state[1][3] = Num(5)

(* ------------------- step() on arbitrary arguments --------------------- *)
\* step() applied to particle states that need not come from lines 20-25.
StepPositions == { <<1, 50>>, <<10, 50>>, <<16, 50>>, <<698, 50>>, <<10, 699>> }

StepInit ==
    /\ particle_count \in 1..MaxParticles
    /\ \E cfg \in Configs :
          /\ radius = cfg[1]
          /\ velocity = cfg[2]
          /\ time_step = cfg[3]
    /\ particle_state \in
          [1..particle_count ->
              { <<Num(p[1]), Num(p[2]), Mul(velocity, a[1]), Mul(velocity, a[2])>> :
                   p \in StepPositions, a \in Angles }]
    /\ state_copy = particle_state
    /\ integrated = particle_state
    /\ is_colliding = <<>>
    /\ colliding = <<>>
    /\ resolved = particle_state
    /\ ticks = 0

StepSpec == StepInit /\ [][Next]_vars

====
